---- MODULE Spec2Model ----
(***************************************************************************)
(* Model of the job store of prjvvl/hunter: the Job record (models/job),   *)
(* the CSV database (services/csv-database) and the reconcile call         *)
(* fetchNewJobOpenings.                                                    *)
(*                                                                         *)
(* A JavaScript string is a sequence of one-character strings, so that     *)
(* concatenation and trim() are computed.  An ISO timestamp produced by    *)
(* new Date().toISOString() at clock reading t is the one-element          *)
(* sequence <<t>>; the empty string is <<>>.  A property that is undefined *)
(* in a JavaScript object is a field missing from the record's DOMAIN.     *)
(***************************************************************************)
EXTENDS Integers, Sequences, FiniteSets, TLC

\* Largest reading of the wall clock (milliseconds, abstracted).
MaxTime == 2
\* Largest number of candidates one scrape cycle collects.
MaxBatch == 2

\* The calls of fetchNewJobOpenings that may be in progress.
Procs == {1, 2}
\* The callers of the sequential specification (one call at a time).
SeqProcs == {1}

VARIABLES
  now,           \* the wall clock read by new Date()
  store,         \* jobs.csv: [exists, rows]
  delta,         \* newly_added_jobs.csv: [exists, rows]
  pc,            \* pc[p]: position of caller p
  scrapedJobs,   \* scrapedJobs[p]: the Job objects handed to fetchNewJobOpenings
  existingJobs,  \* existingJobs[p]: the Job objects loaded from jobs.csv
  updatedJobs,   \* updatedJobs[p]: the sorted array that is saved
  newJobs,       \* newJobs[p]: indices (object references) into scrapedJobs[p]
  mergedAt,      \* mergedAt[p]: clock reading used by the updates of the call
  storeAtCall,   \* storeAtCall[p]: jobs.csv as it was when the call started
  deltaAtCall,   \* deltaAtCall[p]: newly_added_jobs.csv when the call started
  streamErr,     \* streamErr[p]: the read stream of the call reported an error
  again,         \* again[p]: the call repeats the previous one with the same array
  writeErr,      \* writeErr[p]: the file whose writeRecords rejected in the call
  reported,      \* the identity keys of the jobs that calls have returned
  browserInstance, \* services/browser: the module variable, a browser or NoBrowser
  browsers,      \* the browsers that are launched and not closed
  browser,       \* browser[p]: the const `browser` of run p of scrapeJobs
  tasks,         \* config.tasks
  mainPc,        \* position of main()
  cycle,         \* cycle[p]: position of run p of scrapeJobs
  taskIdx,       \* taskIdx[p]: the task of config.tasks the loop of run p is at
  fetchCalls,    \* fetchCalls[p]: calls of fetchNewJobOpenings made by run p
  sent,          \* sent[p]: the kinds of message run p has sent
  navPc,         \* navPc[p]: position of the call of navigateToUrl of run p
  maxRetries,    \* maxRetries[p]: the argument of that call
  retries,       \* retries[p]: the local `retries` of that call
  gotoCalls,     \* gotoCalls[p]: calls of page.goto the call has made
  navigated,     \* navigated[p]: a page.goto of the call has resolved
  scheduledTask, \* services/scheduler: the module variable, a cron task or NoTask
  activeTasks,   \* the cron tasks that are scheduled and not stopped
  created,       \* the number of cron tasks created so far
  scheduleCron,  \* config.scheduleCron at the last call of initScheduler is valid
  lastCall,      \* the scheduler function called last, and what it returned
  queryPc,       \* web/server: position of the handler of GET /api/jobs
  response       \* web/server: the response of the handler

\* The variables of the orchestrator (index.ts, scheduler, browser).
cycleVars ==
  <<browserInstance, browsers, browser, tasks, mainPc, cycle, taskIdx, fetchCalls, sent>>

\* The variables of navigateToUrl, of the scheduler and of the web server.
serviceVars ==
  <<navPc, maxRetries, retries, gotoCalls, navigated, scheduledTask, activeTasks,
    created, scheduleCron, lastCall, queryPc, response>>

vars == <<now, store, delta, pc, scrapedJobs, existingJobs, updatedJobs,
          newJobs, mergedAt, storeAtCall, deltaAtCall, streamErr, again,
          writeErr, reported, cycleVars, serviceVars>>

----------------------------------------------------------------------------
(* JavaScript helpers *)

\* a || b on strings: the empty string and undefined are falsy.
Or(a, b) == IF a # <<>> THEN a ELSE b

\* data[f] of a partial object: undefined is modelled as the falsy <<>>.
Get(data, f) == IF f \in DOMAIN data THEN data[f] ELSE <<>>

\* {...a, ...b}
Spread(a, b) ==
  [f \in (DOMAIN a) \cup (DOMAIN b) |-> IF f \in DOMAIN b THEN b[f] ELSE a[f]]

IsSpace(c) == c = " "

RECURSIVE TrimStart(_)
TrimStart(s) ==
  IF s # <<>> /\ IsSpace(Head(s)) THEN TrimStart(Tail(s)) ELSE s

RECURSIVE TrimEnd(_)
TrimEnd(s) ==
  IF s # <<>> /\ IsSpace(s[Len(s)]) THEN TrimEnd(SubSeq(s, 1, Len(s) - 1)) ELSE s

\* String.prototype.trim
Trim(s) == TrimEnd(TrimStart(s))

\* new Date(t).toISOString()
toISOString(t) == <<t>>

\* new Date(s) parses: only the strings toISOString produced are timestamps here,
\* the empty string is an Invalid Date (getTime() is NaN).
isNaNDate(s) == s = <<>>

\* new Date(s).getTime() of a parsable string
getTime(s) == s[1]

----------------------------------------------------------------------------
(* models/job *)

\* Job.constructor joining the identity fields with a separator.
NewJobKeyWithSeparator(data, t) ==
  LET title     == Or(Get(data, "title"), <<>>)
      company   == Or(Get(data, "company"), <<>>)
      jobId     == Or(Get(data, "jobId"), <<>>)
      link      == Or(Get(data, "link"), <<>>)
      scrapedAt == Or(Get(data, "scrapedAt"), toISOString(t))
  IN  [ title        |-> title,
        company      |-> company,
        location     |-> Or(Get(data, "location"), <<>>),
        jobId        |-> jobId,
        postedDate   |-> Or(Get(data, "postedDate"), <<>>),
        description  |-> Or(Get(data, "description"), <<>>),
        requirements |-> Or(Get(data, "requirements"), <<>>),
        experience   |-> Or(Get(data, "experience"), <<>>),
        link         |-> link,
        source       |-> Or(Get(data, "source"), <<>>),
        scrapedAt    |-> scrapedAt,
        lastUpdated  |-> Or(Get(data, "lastUpdated"), scrapedAt),
        uniqueKey    |-> Trim(company \o <<"|">> \o title \o <<"|">> \o jobId
                              \o <<"|">> \o link) ]

\* Job.constructor keeping a uniqueKey that the data supplies.
NewJobTakesSuppliedKey(data, t) ==
  LET title     == Or(Get(data, "title"), <<>>)
      company   == Or(Get(data, "company"), <<>>)
      jobId     == Or(Get(data, "jobId"), <<>>)
      link      == Or(Get(data, "link"), <<>>)
      scrapedAt == Or(Get(data, "scrapedAt"), toISOString(t))
  IN  [ title        |-> title,
        company      |-> company,
        location     |-> Or(Get(data, "location"), <<>>),
        jobId        |-> jobId,
        postedDate   |-> Or(Get(data, "postedDate"), <<>>),
        description  |-> Or(Get(data, "description"), <<>>),
        requirements |-> Or(Get(data, "requirements"), <<>>),
        experience   |-> Or(Get(data, "experience"), <<>>),
        link         |-> link,
        source       |-> Or(Get(data, "source"), <<>>),
        scrapedAt    |-> scrapedAt,
        lastUpdated  |-> Or(Get(data, "lastUpdated"), scrapedAt),
        uniqueKey    |-> Or(Get(data, "uniqueKey"), Trim(company \o title \o jobId \o link)) ]

\* Job.constructor
NewJob(data, t) ==
  LET title     == Or(Get(data, "title"), <<>>)
      company   == Or(Get(data, "company"), <<>>)
      jobId     == Or(Get(data, "jobId"), <<>>)
      link      == Or(Get(data, "link"), <<>>)
      scrapedAt == Or(Get(data, "scrapedAt"), toISOString(t))
  IN  [ title        |-> title,
        company      |-> company,
        location     |-> Or(Get(data, "location"), <<>>),
        jobId        |-> jobId,
        postedDate   |-> Or(Get(data, "postedDate"), <<>>),
        description  |-> Or(Get(data, "description"), <<>>),
        requirements |-> Or(Get(data, "requirements"), <<>>),
        experience   |-> Or(Get(data, "experience"), <<>>),
        link         |-> link,
        source       |-> Or(Get(data, "source"), <<>>),
        scrapedAt    |-> scrapedAt,
        lastUpdated  |-> Or(Get(data, "lastUpdated"), scrapedAt),
        uniqueKey    |-> Trim(company \o title \o jobId \o link) ]

\* Job.isValid
isValid(job) ==
  job.title # <<>> /\ (job.jobId # <<>> \/ job.link # <<>>)

\* Job.toCSV leaving lastUpdated out of the object it returns.
toCSVWithoutLastUpdated(job) ==
  [ title        |-> job.title,
    company      |-> job.company,
    location     |-> job.location,
    jobId        |-> job.jobId,
    postedDate   |-> job.postedDate,
    description  |-> job.description,
    requirements |-> job.requirements,
    experience   |-> job.experience,
    link         |-> job.link,
    source       |-> job.source,
    scrapedAt    |-> job.scrapedAt,
    uniqueKey    |-> job.uniqueKey ]

\* Job.toCSV
toCSV(job) ==
  [ title        |-> job.title,
    company      |-> job.company,
    location     |-> job.location,
    jobId        |-> job.jobId,
    postedDate   |-> job.postedDate,
    description  |-> job.description,
    requirements |-> job.requirements,
    experience   |-> job.experience,
    link         |-> job.link,
    source       |-> job.source,
    scrapedAt    |-> job.scrapedAt,
    lastUpdated  |-> job.lastUpdated,
    uniqueKey    |-> job.uniqueKey ]

\* Job.update with the spread reversed: the stored values win over the candidate's.
JobUpdateKeepsStored(this, newData, t) ==
  NewJob(Spread(Spread(newData, this),
                [scrapedAt |-> this.scrapedAt, lastUpdated |-> toISOString(t)]),
         t)

\* Job.update without the scrapedAt override: the candidate's scrapedAt is taken.
JobUpdateTakesScrapedAt(this, newData, t) ==
  NewJob(Spread(Spread(this, newData), [lastUpdated |-> toISOString(t)]), t)

\* Job.update without the lastUpdated override: the candidate's lastUpdated is taken.
JobUpdateTakesLastUpdated(this, newData, t) ==
  NewJob(Spread(Spread(this, newData), [scrapedAt |-> this.scrapedAt]), t)

\* Job.update that leaves the record alone when the candidate brings nothing new.
JobUpdateOnlyIfChanged(this, newData, t) ==
  IF \A f \in {"title", "company", "location", "jobId", "postedDate", "description",
                "requirements", "experience", "link", "source"} :
        Get(newData, f) = this[f]
  THEN this
  ELSE NewJob(Spread(Spread(this, newData),
                     [scrapedAt |-> this.scrapedAt, lastUpdated |-> toISOString(t)]),
              t)

\* Job.update: Object.assign(this, new Job({...this, ...newData, scrapedAt, lastUpdated}))
JobUpdate(this, newData, t) ==
  NewJob(Spread(Spread(this, newData),
                [scrapedAt |-> this.scrapedAt, lastUpdated |-> toISOString(t)]),
         t)

----------------------------------------------------------------------------
(* services/csv-database: the codec *)

\* headers: the columns of both files, in file order
headers ==
  << [id |-> "title",          title |-> "Title"],
     [id |-> "company",        title |-> "Company"],
     [id |-> "location",       title |-> "Location"],
     [id |-> "jobId",          title |-> "Job ID"],
     [id |-> "postedDate",     title |-> "Posted Date"],
     [id |-> "workType",       title |-> "Work Type"],
     [id |-> "description",    title |-> "Description"],
     [id |-> "requirements",   title |-> "Requirements"],
     [id |-> "salary",         title |-> "Salary"],
     [id |-> "experience",     title |-> "Experience"],
     [id |-> "employmentType", title |-> "Employment Type"],
     [id |-> "link",           title |-> "Link"],
     [id |-> "source",         title |-> "Source"],
     [id |-> "scrapedAt",      title |-> "Scraped At"],
     [id |-> "lastUpdated",    title |-> "Last Updated"] >>

\* csvWriter.writeRecords(jobs.map(toCSV)): one line of cells per job, a cell per
\* header id, an undefined property written as the empty cell.
stringifyRecords(jobs) ==
  [n \in 1..Len(jobs) |->
     [i \in 1..Len(headers) |-> Get(toCSV(jobs[n]), headers[i].id)]]

\* csvParser(): the object of a line, keyed by the labels of the header line.
parseRow(cells) ==
  [t \in {headers[i].title : i \in 1..Len(cells)} |->
     cells[CHOOSE i \in 1..Len(cells) : headers[i].title = t]]

\* headers.forEach of the 'data' handler: jobData[header.id] = row[header.title]
\* for the labels the row has.
rowJobData(cells) ==
  LET row     == parseRow(cells)
      present == {i \in 1..Len(headers) : headers[i].title \in DOMAIN row}
  IN  [k \in {headers[i].id : i \in present} |->
         row[headers[CHOOSE i \in present : headers[i].id = k].title]]

\* The 'data' handler leaving the 'Last Updated' cell of the row out of jobData.
rowToJobWithoutLastUpdated(cells, t) ==
  NewJob([k \in (DOMAIN rowJobData(cells)) \ {"lastUpdated"} |-> rowJobData(cells)[k]], t)

\* The 'data' handler reading the job id under a label the file does not have.
rowToJobWithoutJobId(cells, t) ==
  NewJob([k \in (DOMAIN rowJobData(cells)) \ {"jobId"} |-> rowJobData(cells)[k]], t)

\* The 'data' handler of loadJobsFromDatabase: row -> jobData -> new Job
rowToJob(cells, t) == NewJob(rowJobData(cells), t)
\* A file that does not exist, and a file holding the given lines under the header.
Absent == [exists |-> FALSE, rows |-> <<>>]
FileOf(rows) == [exists |-> TRUE, rows |-> rows]

\* loadJobsFromDatabase resolving with [] when the stream reports an error.
loadJobsEmptyOnError(file, streamError, t) ==
  IF ~file.exists \/ streamError THEN [ok |-> TRUE, jobs |-> <<>>]
  ELSE [ok |-> TRUE,
        jobs |-> [n \in 1..Len(file.rows) |-> rowToJob(file.rows[n], t)]]

\* loadJobsFromDatabase: [] when the file does not exist, the promise rejects when
\* the stream reports an error, else one Job per line, in file order.
loadJobsFromDatabase(file, streamError, t) ==
  IF ~file.exists THEN [ok |-> TRUE, jobs |-> <<>>]
  ELSE IF streamError THEN [ok |-> FALSE, jobs |-> <<>>]
  ELSE [ok |-> TRUE,
        jobs |-> [n \in 1..Len(file.rows) |-> rowToJob(file.rows[n], t)]]

\* csvWriter.writeRecords of a writer created without `append`: the file is
\* rewritten as the header line and the lines of these records.
writeRecords(jobs) == FileOf(stringifyRecords(jobs))

\* saveJobsToDatabase with a writer created with `append: true`.
saveJobsAppending(old, jobs) == FileOf(old.rows \o stringifyRecords(jobs))

\* saveJobsToDatabase(jobs): jobs.csv, whatever it held (old), is rewritten.
saveJobsToDatabase(old, jobs) == writeRecords(jobs)

\* exportJobsToCSV with a writer created with `append: true`.
exportJobsAppending(old, jobs) == FileOf(old.rows \o stringifyRecords(jobs))

\* exportJobsToCSV(jobs, filePath): the file, whatever it held (old), is rewritten.
exportJobsToCSV(old, jobs) == writeRecords(jobs)

----------------------------------------------------------------------------
(* services/csv-database: fetchNewJobOpenings *)

\* A reference to a Job object: an element of existingJobs or of scrapedJobs.
ExistingRef(n) == [arr |-> "existing", idx |-> n]
ScrapedRef(i) == [arr |-> "scraped", idx |-> i]

\* The object a reference points to, in heap h = [existing, scraped].
Deref(h, ref) == IF ref.arr = "existing" THEN h.existing[ref.idx] ELSE h.scraped[ref.idx]

\* A Map.has that finds no key.
MapHasNever(map, key) == FALSE

\* Map.has, Map.get, Map.set on an insertion-ordered sequence of [key, ref].
MapHas(map, key) == \E n \in 1..Len(map) : map[n].key = key
MapGet(map, key) == map[CHOOSE n \in 1..Len(map) : map[n].key = key].ref
MapSetAppending(map, key, ref) == Append(map, [key |-> key, ref |-> ref])
MapSet(map, key, ref) ==
  IF MapHas(map, key)
  THEN [n \in 1..Len(map) |-> IF map[n].key = key THEN [key |-> key, ref |-> ref] ELSE map[n]]
  ELSE Append(map, [key |-> key, ref |-> ref])

\* A jobsMap that the loaded jobs are not put into.
BuildMapOfNothing(existing, n, map) == map

\* existingJobs.forEach((job) => jobsMap.set(job.uniqueKey, job))
RECURSIVE BuildMap(_, _, _)
BuildMap(existing, n, map) ==
  IF n > Len(existing) THEN map
  ELSE BuildMap(existing, n + 1, MapSet(map, existing[n].uniqueKey, ExistingRef(n)))

\* The body of scrapedJobs.forEach leaving alone a candidate that an earlier
\* candidate of the batch put into the map.
MergeStepIgnoresLaterDuplicate(st, i, t) ==
  LET scrapedJob == st.scraped[i]
      key        == scrapedJob.uniqueKey
  IN  IF MapHas(st.map, key)
      THEN LET ref     == MapGet(st.map, key)
               updated == JobUpdate(Deref(st, ref), scrapedJob, t)
           IN  IF ref.arr = "existing"
               THEN [st EXCEPT !.existing[ref.idx] = updated]
               ELSE st
      ELSE [st EXCEPT !.map = MapSet(st.map, key, ScrapedRef(i)),
                      !.newJobs = Append(st.newJobs, i)]

\* The body of scrapedJobs.forEach pushing the candidate to newJobs on both paths.
MergeStepPushesUpdates(st, i, t) ==
  LET scrapedJob == st.scraped[i]
      key        == scrapedJob.uniqueKey
  IN  IF MapHas(st.map, key)
      THEN LET ref     == MapGet(st.map, key)
               updated == JobUpdate(Deref(st, ref), scrapedJob, t)
           IN  IF ref.arr = "existing"
               THEN [st EXCEPT !.existing[ref.idx] = updated,
                               !.newJobs = Append(st.newJobs, i)]
               ELSE [st EXCEPT !.scraped[ref.idx] = updated,
                               !.newJobs = Append(st.newJobs, i)]
      ELSE [st EXCEPT !.map = MapSet(st.map, key, ScrapedRef(i)),
                      !.newJobs = Append(st.newJobs, i)]

\* The body of scrapedJobs.forEach for element i, on state
\* st = [map, existing, scraped, newJobs]: update the object the map holds, in
\* place, or insert the candidate object itself and push it to newJobs.
MergeStep(st, i, t) ==
  LET scrapedJob == st.scraped[i]
      key        == scrapedJob.uniqueKey
  IN  IF MapHas(st.map, key)
      THEN LET ref     == MapGet(st.map, key)
               updated == JobUpdate(Deref(st, ref), scrapedJob, t)
           IN  IF ref.arr = "existing"
               THEN [st EXCEPT !.existing[ref.idx] = updated]
               ELSE [st EXCEPT !.scraped[ref.idx] = updated]
      ELSE [st EXCEPT !.map = MapSet(st.map, key, ScrapedRef(i)),
                      !.newJobs = Append(st.newJobs, i)]

RECURSIVE MergeAll(_, _, _)
MergeAll(st, i, t) ==
  IF i > Len(st.scraped) THEN st ELSE MergeAll(MergeStep(st, i, t), i + 1, t)

\* The comparator with its operands exchanged: a.scrapedAt - b.scrapedAt.
compareScrapedAtAscending(a, b) ==
  IF isNaNDate(a.scrapedAt) \/ isNaNDate(b.scrapedAt) THEN 0
  ELSE getTime(a.scrapedAt) - getTime(b.scrapedAt)

\* The comparator of updatedJobs.sort: b.scrapedAt - a.scrapedAt in milliseconds;
\* a NaN result is treated as 0 by the sort.
compareScrapedAt(a, b) ==
  IF isNaNDate(a.scrapedAt) \/ isNaNDate(b.scrapedAt) THEN 0
  ELSE getTime(b.scrapedAt) - getTime(a.scrapedAt)

\* Array.prototype.sort is stable: x goes before the first element that the
\* comparator orders after it.
RECURSIVE SortInsert(_, _)
SortInsert(sorted, x) ==
  IF sorted = <<>> THEN <<x>>
  ELSE IF compareScrapedAt(Head(sorted), x) > 0 THEN <<x>> \o sorted
  ELSE <<Head(sorted)>> \o SortInsert(Tail(sorted), x)

RECURSIVE SortJobs(_, _)
SortJobs(jobs, sorted) ==
  IF jobs = <<>> THEN sorted ELSE SortJobs(Tail(jobs), SortInsert(sorted, Head(jobs)))

\* Lines 178-209 of fetchNewJobOpenings, run once the load has resolved with
\* `existing`: the heap and jobsMap after the loop, the sorted array and newJobs.
Reconcile(existing, scraped, t) ==
  LET st0 == [map |-> BuildMap(existing, 1, <<>>), existing |-> existing,
              scraped |-> scraped, newJobs |-> <<>>]
      st  == MergeAll(st0, 1, t)
      values == [n \in 1..Len(st.map) |-> Deref(st, st.map[n].ref)]
  IN  [existing |-> st.existing, scraped |-> st.scraped, map |-> st.map,
       updatedJobs |-> SortJobs(values, <<>>), newJobs |-> st.newJobs]
----------------------------------------------------------------------------
(* The candidates the portals hand to Job.fromRawData *)

\* The object a portal builds from a page: the identity fields, and the other
\* content fields set to v.
RawData(company, title, jobId, link, v) ==
  [ title |-> title, company |-> company, jobId |-> jobId, link |-> link,
    location |-> v, postedDate |-> v, description |-> v, requirements |-> v,
    experience |-> v, source |-> v ]

\* A posting; a posting with other details and another (company, title) split
\* whose concatenation is the same; a posting without a title, whose link ends
\* with a blank.
RawJobs ==
  { RawData(<<"A">>, <<"B", "C">>, <<"1">>, <<>>, <<>>),
    RawData(<<"A", "B">>, <<"C">>, <<"1">>, <<>>, <<"u">>),
    RawData(<<"D">>, <<>>, <<>>, <<"x", " ">>, <<>>) }

\* The jobs.csv a process may find when it starts: none, or a file that was not
\* written by fetchNewJobOpenings, in which one posting occupies two lines.
InitStores ==
  { Absent,
    writeRecords(<< NewJob(Spread(RawData(<<"A">>, <<"B", "C">>, <<"1">>, <<>>, <<>>),
                                  [scrapedAt |-> toISOString(0)]), 0),
                    NewJob(Spread(RawData(<<"A", "B">>, <<"C">>, <<"1">>, <<>>, <<"u">>),
                                  [scrapedAt |-> toISOString(1)]), 1) >>) }

----------------------------------------------------------------------------
(* The state machine *)

\* No cron task: scheduledTask is null.
NoTask == 0

\* No call of navigateToUrl or of the scheduler has been made, and no request
\* has reached the web server.
ServicesIdle ==
  /\ navPc = [p \in Procs |-> "idle"]
  /\ maxRetries = [p \in Procs |-> 0]
  /\ retries = [p \in Procs |-> 0]
  /\ gotoCalls = [p \in Procs |-> 0]
  /\ navigated = [p \in Procs |-> FALSE]
  /\ scheduledTask = NoTask
  /\ activeTasks = {}
  /\ created = 0
  /\ scheduleCron = TRUE
  /\ lastCall = [name |-> "none", returned |-> TRUE]
  /\ queryPc = "idle"
  /\ response = [status |-> 0, totalJobs |-> 0]

\* config.tasks as shipped: every task is enabled.
ConfigTasks ==
  << [type |-> "amazon",     scrape |-> TRUE],
     [type |-> "google",     scrape |-> TRUE],
     [type |-> "microsoft",  scrape |-> TRUE],
     [type |-> "flipkart",   scrape |-> TRUE],
     [type |-> "atlassian",  scrape |-> TRUE],
     [type |-> "salesforce", scrape |-> TRUE],
     [type |-> "nvidia",     scrape |-> TRUE] >>

\* `let browserInstance: Browser | null = null`
NoBrowser == 0

\* The orchestrator before main() runs, with the given config.tasks: no browser,
\* no run of scrapeJobs.
NotStarted(cfg) ==
  /\ browserInstance = NoBrowser
  /\ browsers = {}
  /\ browser = [p \in Procs |-> NoBrowser]
  /\ tasks = cfg
  /\ mainPc = "start"
  /\ cycle = [p \in Procs |-> "idle"]
  /\ taskIdx = [p \in Procs |-> 0]
  /\ fetchCalls = [p \in Procs |-> 0]
  /\ sent = [p \in Procs |-> {}]

\* The files and the callers at start, given the jobs.csv that is found.
InitCalls(file) ==
  /\ now = 1
  /\ store = file
  /\ delta = Absent
  /\ pc = [p \in Procs |-> "scrape"]
  /\ scrapedJobs = [p \in Procs |-> <<>>]
  /\ existingJobs = [p \in Procs |-> <<>>]
  /\ updatedJobs = [p \in Procs |-> <<>>]
  /\ newJobs = [p \in Procs |-> <<>>]
  /\ mergedAt = [p \in Procs |-> 0]
  /\ storeAtCall = [p \in Procs |-> Absent]
  /\ deltaAtCall = [p \in Procs |-> Absent]
  /\ streamErr = [p \in Procs |-> FALSE]
  /\ again = [p \in Procs |-> FALSE]
  /\ writeErr = [p \in Procs |-> "none"]
  /\ reported = {}
  /\ ServicesIdle

\* The state at start, given the jobs.csv that is found.
InitWith(file) == InitCalls(file) /\ NotStarted(ConfigTasks)

\* A fresh installation: there is no jobs.csv yet.
Init == InitWith(Absent)

\* An installation that finds a jobs.csv of InitStores.
InitFound == \E file \in InitStores : InitWith(file)

\* The wall clock advances (it is assumed never to be set back).
Tick ==
  /\ now < MaxTime
  /\ now' = now + 1
  /\ UNCHANGED <<store, delta, pc, scrapedJobs, existingJobs, updatedJobs, newJobs,
                 mergedAt, storeAtCall, deltaAtCall, streamErr, again>>
  /\ UNCHANGED <<writeErr, reported, cycleVars, serviceVars>>

\* A portal returns one more candidate of the cycle: Job.fromRawData(raw).
ScrapeJob(p, raw) ==
  /\ pc[p] = "scrape"
  /\ Len(scrapedJobs[p]) < MaxBatch
  /\ scrapedJobs' = [scrapedJobs EXCEPT ![p] = Append(@, NewJob(raw, now))]
  /\ UNCHANGED <<now, store, delta, pc, existingJobs, updatedJobs, newJobs,
                 mergedAt, storeAtCall, deltaAtCall, streamErr, again>>
  /\ UNCHANGED <<writeErr, reported, cycleVars, serviceVars>>

\* fetchNewJobOpenings(scrapedJobs) is called: the load starts.
FetchCall(p) ==
  /\ pc[p] = "scrape"
  /\ pc' = [pc EXCEPT ![p] = "load"]
  /\ storeAtCall' = [storeAtCall EXCEPT ![p] = store]
  /\ deltaAtCall' = [deltaAtCall EXCEPT ![p] = delta]
  /\ again' = [again EXCEPT ![p] = FALSE]
  /\ UNCHANGED <<now, store, delta, scrapedJobs, existingJobs, updatedJobs, newJobs,
                 mergedAt, streamErr>>
  /\ UNCHANGED <<writeErr, reported, cycleVars, serviceVars>>

\* The caller calls fetchNewJobOpenings again with the array of the call that
\* has just returned.
Refetch(p) ==
  /\ pc[p] = "done"
  /\ pc' = [pc EXCEPT ![p] = "load"]
  /\ storeAtCall' = [storeAtCall EXCEPT ![p] = store]
  /\ deltaAtCall' = [deltaAtCall EXCEPT ![p] = delta]
  /\ again' = [again EXCEPT ![p] = TRUE]
  /\ existingJobs' = [existingJobs EXCEPT ![p] = <<>>]
  /\ updatedJobs' = [updatedJobs EXCEPT ![p] = <<>>]
  /\ newJobs' = [newJobs EXCEPT ![p] = <<>>]
  /\ UNCHANGED <<now, store, delta, scrapedJobs, mergedAt, streamErr>>
  /\ UNCHANGED <<writeErr, reported, cycleVars, serviceVars>>

\* The load settles, the stream having reported an error (err) or not.  When it
\* rejects, the call rejects.  When it resolves, the map is built, the candidates
\* are merged, the array is sorted and saveJobsToDatabase is entered, all without
\* yielding.
Load(p, err) ==
  /\ pc[p] = "load"
  /\ streamErr' = [streamErr EXCEPT ![p] = err]
  /\ LET loaded == loadJobsFromDatabase(store, err, now)
         r      == Reconcile(loaded.jobs, scrapedJobs[p], now)
     IN  IF loaded.ok
         THEN /\ existingJobs' = [existingJobs EXCEPT ![p] = r.existing]
              /\ scrapedJobs' = [scrapedJobs EXCEPT ![p] = r.scraped]
              /\ updatedJobs' = [updatedJobs EXCEPT ![p] = r.updatedJobs]
              /\ newJobs' = [newJobs EXCEPT ![p] = r.newJobs]
              /\ mergedAt' = [mergedAt EXCEPT ![p] = now]
              /\ pc' = [pc EXCEPT ![p] = "save"]
         ELSE /\ pc' = [pc EXCEPT ![p] = "failed"]
              /\ UNCHANGED <<scrapedJobs, existingJobs, updatedJobs, newJobs, mergedAt>>
  /\ UNCHANGED <<now, store, delta, storeAtCall, deltaAtCall, again>>
  /\ UNCHANGED <<writeErr, reported, cycleVars, serviceVars>>

\* The stream ends without an error (or the file does not exist).
LoadMerge(p) == pc[p] = "load" /\ Load(p, FALSE)

\* The stream of the existing file reports an error.
LoadFail(p) == store.exists /\ Load(p, TRUE)

\* saveJobsToDatabase(updatedJobs) completes: jobs.csv is rewritten.
Save(p) ==
  /\ pc[p] = "save"
  /\ store' = saveJobsToDatabase(store, updatedJobs[p])
  /\ pc' = [pc EXCEPT ![p] = "export"]
  /\ UNCHANGED <<now, delta, scrapedJobs, existingJobs, updatedJobs, newJobs,
                 mergedAt, storeAtCall, deltaAtCall, streamErr, again>>
  /\ UNCHANGED <<writeErr, reported, cycleVars, serviceVars>>

\* The Job objects newJobs refers to.
NewJobObjects(p) == [n \in 1..Len(newJobs[p]) |-> scrapedJobs[p][newJobs[p][n]]]

\* exportJobsToCSV(newJobs, newJobsPath) completes and the call returns newJobs.
Export(p) ==
  /\ pc[p] = "export"
  /\ delta' = exportJobsToCSV(delta, NewJobObjects(p))
  /\ pc' = [pc EXCEPT ![p] = "done"]
  /\ UNCHANGED <<now, store, scrapedJobs, existingJobs, updatedJobs, newJobs,
                 mergedAt, storeAtCall, deltaAtCall, streamErr, again>>
  /\ reported' = reported \cup {NewJobObjects(p)[n].uniqueKey : n \in 1..Len(newJobs[p])}
  /\ UNCHANGED <<writeErr, cycleVars, serviceVars>>

\* The cycle is over (returned or rejected); the next cycle starts collecting.
NewCycle(p) ==
  /\ pc[p] \in {"done", "failed"}
  /\ pc' = [pc EXCEPT ![p] = "scrape"]
  /\ scrapedJobs' = [scrapedJobs EXCEPT ![p] = <<>>]
  /\ existingJobs' = [existingJobs EXCEPT ![p] = <<>>]
  /\ updatedJobs' = [updatedJobs EXCEPT ![p] = <<>>]
  /\ newJobs' = [newJobs EXCEPT ![p] = <<>>]
  /\ mergedAt' = [mergedAt EXCEPT ![p] = 0]
  /\ storeAtCall' = [storeAtCall EXCEPT ![p] = Absent]
  /\ deltaAtCall' = [deltaAtCall EXCEPT ![p] = Absent]
  /\ streamErr' = [streamErr EXCEPT ![p] = FALSE]
  /\ again' = [again EXCEPT ![p] = FALSE]
  /\ writeErr' = [writeErr EXCEPT ![p] = "none"]
  /\ UNCHANGED <<now, store, delta, reported, cycleVars, serviceVars>>

\* Calls do not overlap: the callers of SeqProcs run one call at a time.
Next ==
  \/ Tick
  \/ \E p \in SeqProcs, raw \in RawJobs : ScrapeJob(p, raw)
  \/ \E p \in SeqProcs : FetchCall(p)
  \/ \E p \in SeqProcs : LoadFail(p)
  \/ \E p \in SeqProcs : LoadMerge(p)
  \/ \E p \in SeqProcs : Save(p)
  \/ \E p \in SeqProcs : Export(p)
  \/ \E p \in SeqProcs : NewCycle(p)

Spec == Init /\ [][Next]_vars

\* The same steps, and a caller that may repeat a call that has returned.
NextRepeat ==
  \/ Next
  \/ \E p \in SeqProcs : Refetch(p)

\* Calls and repeated calls, started on any of the files of InitStores.
SpecFound == InitFound /\ [][NextRepeat]_vars

----------------------------------------------------------------------------
(* services/csv-database: writes that fail *)

\* What a file may hold after writeRecords(jobs) on it has rejected: what it
\* held, or the header line and any number of the first lines of the records.
FailedWrites(old, jobs) ==
  {old} \cup {FileOf(SubSeq(stringifyRecords(jobs), 1, k)) : k \in 0..Len(jobs)}

\* The catch block around writeRecords that logs the error and does not throw.
afterWriteRecordsSwallowing(rejected) == "returns"

\* The try/catch around writeRecords in saveJobsToDatabase and exportJobsToCSV:
\* an error is logged and thrown again.
afterWriteRecords(rejected) == IF rejected THEN "throws" ELSE "returns"

\* writeRecords of saveJobsToDatabase rejects: the call rejects, and
\* exportJobsToCSV is not reached.
SaveFail(p) ==
  /\ pc[p] = "save"
  /\ store' \in FailedWrites(store, updatedJobs[p])
  /\ writeErr' = [writeErr EXCEPT ![p] = "store"]
  /\ pc' = [pc EXCEPT ![p] = IF afterWriteRecords(TRUE) = "throws" THEN "failed" ELSE "export"]
  /\ UNCHANGED <<now, delta, scrapedJobs, existingJobs, updatedJobs, newJobs,
                 mergedAt, storeAtCall, deltaAtCall, streamErr, again, reported, cycleVars,
                 serviceVars>>

\* writeRecords of exportJobsToCSV rejects: the call rejects and newJobs is not
\* returned.
ExportFail(p) ==
  /\ pc[p] = "export"
  /\ delta' \in FailedWrites(delta, NewJobObjects(p))
  /\ writeErr' = [writeErr EXCEPT ![p] = "delta"]
  /\ pc' = [pc EXCEPT ![p] = IF afterWriteRecords(TRUE) = "throws" THEN "failed" ELSE "done"]
  /\ UNCHANGED <<now, store, scrapedJobs, existingJobs, updatedJobs, newJobs,
                 mergedAt, storeAtCall, deltaAtCall, streamErr, again, reported, cycleVars,
                 serviceVars>>

\* One call after another, any write of which may fail (the clock is left alone:
\* the timestamps have no part in what a failed write does).
NextPersist ==
  \/ \E p \in SeqProcs, raw \in RawJobs : ScrapeJob(p, raw)
  \/ \E p \in SeqProcs : FetchCall(p)
  \/ \E p \in SeqProcs : LoadMerge(p)
  \/ \E p \in SeqProcs : Save(p)
  \/ \E p \in SeqProcs : Export(p)
  \/ \E p \in SeqProcs : NewCycle(p)
  \/ \E p \in SeqProcs : SaveFail(p)
  \/ \E p \in SeqProcs : ExportFail(p)

SpecPersist == Init /\ [][NextPersist]_vars

----------------------------------------------------------------------------
(* services/csv-database: two calls of fetchNewJobOpenings in progress at once *)

\* Each caller of Procs collects a batch and makes one call; the steps of the
\* two calls interleave at their awaits (load, save, export).
NextConcurrent ==
  \/ \E p \in Procs, raw \in RawJobs : ScrapeJob(p, raw)
  \/ \E p \in Procs : FetchCall(p)
  \/ \E p \in Procs : LoadMerge(p)
  \/ \E p \in Procs : Save(p)
  \/ \E p \in Procs : Export(p)

SpecConcurrent == Init /\ [][NextConcurrent]_vars

----------------------------------------------------------------------------
(* index.ts, services/browser, services/scheduler: the runs of scrapeJobs *)

\* Largest number of browsers that are open at once.
MaxBrowsers == 2

\* The task types the switch of scrapeJobs has a case for.
PortalTypes == {"amazon", "google", "microsoft", "flipkart", "atlassian"}

\* config.tasks of a deployment: the last handled task and the first task
\* without a case, as shipped; the first two tasks as shipped; and these with
\* the first switched off.
Configs ==
  { SubSeq(ConfigTasks, 5, 6),
    SubSeq(ConfigTasks, 1, 2),
    << [type |-> "amazon", scrape |-> FALSE], ConfigTasks[2] >> }

\* The for loop of scrapeJobs from task i to where the run stops next: awaiting
\* portal.scrape() of an enabled task, thrown out of the loop by a task type
\* without a case, or past the last task, awaiting closeBrowser.
RECURSIVE LoopFrom(_, _)
LoopFrom(cfg, i) ==
  IF i > Len(cfg) THEN [at |-> "closing", idx |-> i]
  ELSE IF ~cfg[i].scrape THEN LoopFrom(cfg, i + 1)
  ELSE IF cfg[i].type \notin PortalTypes THEN [at |-> "thrown", idx |-> i]
  ELSE [at |-> "scraping", idx |-> i]

\* Run p of scrapeJobs is in progress: it awaits the launch, a portal, the close
\* of the browser, fetchNewJobOpenings, the last messages of the try block
\* ("announcing") or the error report of the outer catch ("reporting").
Running(p) ==
  cycle[p] \in {"setup", "scraping", "closing", "fetching", "announcing", "reporting"}

\* Run p goes on with task i, having sent msgs; an error thrown out of the loop
\* is caught by the outer catch, which sends the error report.
ContinueLoop(p, i, msgs) ==
  LET stop == LoopFrom(tasks, i)
  IN  /\ taskIdx' = [taskIdx EXCEPT ![p] = stop.idx]
      /\ cycle' = [cycle EXCEPT ![p] =
                     IF stop.at = "thrown" THEN "reporting" ELSE stop.at]
      /\ sent' = [sent EXCEPT ![p] =
                    msgs \cup (IF stop.at = "thrown" THEN {"error"} ELSE {})]

\* The variables of the call of fetchNewJobOpenings of run p are those of a run
\* that has made no call: the call of the run, if it made one, is over.
CallOver(p) ==
  /\ pc' = [pc EXCEPT ![p] = "scrape"]
  /\ existingJobs' = [existingJobs EXCEPT ![p] = <<>>]
  /\ updatedJobs' = [updatedJobs EXCEPT ![p] = <<>>]
  /\ newJobs' = [newJobs EXCEPT ![p] = <<>>]
  /\ mergedAt' = [mergedAt EXCEPT ![p] = 0]
  /\ storeAtCall' = [storeAtCall EXCEPT ![p] = Absent]
  /\ deltaAtCall' = [deltaAtCall EXCEPT ![p] = Absent]
  /\ streamErr' = [streamErr EXCEPT ![p] = FALSE]
  /\ again' = [again EXCEPT ![p] = FALSE]
  /\ writeErr' = [writeErr EXCEPT ![p] = "none"]

\* scrapeJobs() is entered as run p: setupBrowser returns the browser the module
\* holds, or starts to launch one; allJobs is empty.
StartRun(p) ==
  /\ CallOver(p)
  /\ scrapedJobs' = [scrapedJobs EXCEPT ![p] = <<>>]
  /\ fetchCalls' = [fetchCalls EXCEPT ![p] = 0]
  /\ browser' = [browser EXCEPT ![p] = browserInstance]
  /\ IF browserInstance # NoBrowser
     THEN ContinueLoop(p, 1, {})
     ELSE /\ cycle' = [cycle EXCEPT ![p] = "setup"]
          /\ taskIdx' = [taskIdx EXCEPT ![p] = 0]
          /\ sent' = [sent EXCEPT ![p] = {}]
  /\ UNCHANGED <<serviceVars, now, store, delta, reported, browserInstance, browsers, tasks>>

\* main() calls scrapeJobs() for the initial run and awaits it.
MainStart ==
  /\ mainPc = "start"
  /\ mainPc' = "initial"
  /\ StartRun(1)

\* The initial run has returned: main() calls initScheduler, which schedules the
\* cron task.
MainSchedule ==
  /\ mainPc = "initial"
  /\ cycle[1] = "returned"
  /\ mainPc' = "scheduled"
  /\ UNCHANGED <<serviceVars, now, store, delta, reported, pc, scrapedJobs, existingJobs, updatedJobs, newJobs,
                 mergedAt, storeAtCall, deltaAtCall, streamErr, again, writeErr,
                 browserInstance, browsers, browser, tasks, cycle, taskIdx, fetchCalls, sent>>

\* The cron expression matches: the callback of cron.schedule calls
\* scheduleFunction, whatever the runs before it are doing (p is the first run
\* identifier that is not in use).
CronFire(p) ==
  /\ mainPc = "scheduled"
  /\ ~Running(p)
  /\ \A q \in Procs : q < p => Running(q)
  /\ UNCHANGED mainPc
  /\ StartRun(p)

\* A browser that is neither open nor held by the module or by a run in progress.
FreshBrowsers ==
  {b \in 1..MaxBrowsers :
     /\ b \notin browsers
     /\ b # browserInstance
     /\ \A q \in Procs : Running(q) => browser[q] # b}

\* The variables of the calls of fetchNewJobOpenings that a step of the
\* orchestrator leaves alone.
callVars ==
  <<now, store, delta, reported, pc, existingJobs, updatedJobs, newJobs, mergedAt,
    storeAtCall, deltaAtCall, streamErr, again, writeErr>>

\* puppeteer.launch resolves in setupBrowser: the module holds the new browser
\* and the loop over config.tasks starts.
LaunchDone(p) ==
  /\ cycle[p] = "setup"
  /\ FreshBrowsers # {}
  /\ LET b == CHOOSE x \in FreshBrowsers : \A y \in FreshBrowsers : x <= y
     IN  /\ browsers' = browsers \cup {b}
         /\ browserInstance' = b
         /\ browser' = [browser EXCEPT ![p] = b]
  /\ ContinueLoop(p, 1, sent[p])
  /\ UNCHANGED <<serviceVars, callVars, scrapedJobs, tasks, mainPc, fetchCalls>>

\* puppeteer.launch rejects: the outer catch sends the error report.
LaunchFail(p) ==
  /\ cycle[p] = "setup"
  /\ cycle' = [cycle EXCEPT ![p] = "reporting"]
  /\ sent' = [sent EXCEPT ![p] = @ \cup {"error"}]
  /\ UNCHANGED <<serviceVars, callVars, scrapedJobs, browserInstance, browsers, browser, tasks,
                 mainPc, taskIdx, fetchCalls>>

\* portal.scrape() of the task resolves with jobs: a message when there is none,
\* allJobs = [...allJobs, ...jobs], and the loop goes on.
PortalReturns(p, jobs) ==
  /\ cycle[p] = "scraping"
  /\ Len(scrapedJobs[p]) + Len(jobs) <= MaxBatch
  /\ scrapedJobs' = [scrapedJobs EXCEPT ![p] = @ \o jobs]
  /\ ContinueLoop(p, taskIdx[p] + 1,
                  sent[p] \cup (IF jobs = <<>> THEN {"sourceEmpty"} ELSE {}))
  /\ UNCHANGED <<serviceVars, callVars, browserInstance, browsers, browser, tasks, mainPc, fetchCalls>>

\* portal.scrape() of the task rejects: the inner catch sends a message and the
\* loop goes on.
PortalThrows(p) ==
  /\ cycle[p] = "scraping"
  /\ ContinueLoop(p, taskIdx[p] + 1, sent[p] \cup {"sourceError"})
  /\ UNCHANGED <<serviceVars, callVars, scrapedJobs, browserInstance, browsers, browser, tasks,
                 mainPc, fetchCalls>>

\* closeBrowser(browser) resolves: the browser of the run is closed and the
\* module holds none; fetchNewJobOpenings(allJobs) is called and its load starts
\* (no record is kept of the files as they are when the call starts).
CloseBrowser(p) ==
  /\ cycle[p] = "closing"
  /\ browsers' = browsers \ {browser[p]}
  /\ browserInstance' = NoBrowser
  /\ cycle' = [cycle EXCEPT ![p] = "fetching"]
  /\ fetchCalls' = [fetchCalls EXCEPT ![p] = @ + 1]
  /\ pc' = [pc EXCEPT ![p] = "load"]
  /\ UNCHANGED <<serviceVars, now, store, delta, reported, scrapedJobs, existingJobs, updatedJobs, newJobs,
                 mergedAt, streamErr, again, writeErr, browser, tasks, mainPc,
                 taskIdx, sent, storeAtCall, deltaAtCall>>

\* instance.close() rejects in closeBrowser: the outer catch sends the error
\* report; the module still holds what it held.
CloseBrowserFail(p) ==
  /\ cycle[p] = "closing"
  /\ cycle' = [cycle EXCEPT ![p] = "reporting"]
  /\ sent' = [sent EXCEPT ![p] = @ \cup {"error"}]
  /\ UNCHANGED <<serviceVars, callVars, scrapedJobs, browserInstance, browsers, browser, tasks,
                 mainPc, taskIdx, fetchCalls>>

\* fetchNewJobOpenings has returned newJobs: the summary and the count are sent,
\* or the message that there is no new opening.
FetchReturns(p) ==
  /\ cycle[p] = "fetching"
  /\ pc[p] = "done"
  /\ cycle' = [cycle EXCEPT ![p] = "announcing"]
  /\ sent' = [sent EXCEPT ![p] =
                @ \cup (IF Len(newJobs[p]) > 0 THEN {"summary", "found"} ELSE {"none"})]
  /\ CallOver(p)
  /\ UNCHANGED <<serviceVars, now, store, delta, reported, scrapedJobs, browserInstance, browsers, browser,
                 tasks, mainPc, taskIdx, fetchCalls>>

\* fetchNewJobOpenings has rejected: the outer catch sends the error report.
FetchThrows(p) ==
  /\ cycle[p] = "fetching"
  /\ pc[p] = "failed"
  /\ cycle' = [cycle EXCEPT ![p] = "reporting"]
  /\ sent' = [sent EXCEPT ![p] = @ \cup {"error"}]
  /\ CallOver(p)
  /\ UNCHANGED <<serviceVars, now, store, delta, reported, scrapedJobs, browserInstance, browsers, browser,
                 tasks, mainPc, taskIdx, fetchCalls>>

\* Run p is over with outcome how: its local variables (browser, allJobs, the
\* position in config.tasks) are gone, and what it sent and called is counted
\* from nothing by the next run.
EndRun(p, how) ==
  /\ cycle' = [cycle EXCEPT ![p] = how]
  /\ scrapedJobs' = [scrapedJobs EXCEPT ![p] = <<>>]
  /\ browser' = [browser EXCEPT ![p] = NoBrowser]
  /\ taskIdx' = [taskIdx EXCEPT ![p] = 0]
  /\ fetchCalls' = [fetchCalls EXCEPT ![p] = 0]
  /\ sent' = [sent EXCEPT ![p] = {}]
  /\ UNCHANGED <<serviceVars, callVars, browserInstance, browsers, tasks>>

\* The last message of the try block is sent: scrapeJobs returns.
Returns(p) ==
  /\ cycle[p] = "announcing"
  /\ EndRun(p, "returned")
  /\ UNCHANGED mainPc

\* The error report of the outer catch is sent: scrapeJobs throws the error
\* again; when it is the initial run, the catch of main() calls process.exit(1).
Rethrows(p) ==
  /\ cycle[p] = "reporting"
  /\ EndRun(p, "thrown")
  /\ mainPc' = IF mainPc = "initial" THEN "exited" ELSE mainPc

\* What portal.scrape() may resolve with: no job, or one job.
PortalResults ==
  {<<>>} \cup {<<NewJob(raw, now)>> : raw \in {r \in RawJobs : r.company = <<"A">>}}

\* main(), the cron task and the runs of scrapeJobs they start, with the calls
\* of fetchNewJobOpenings the runs make.
NextCycle ==
  \/ MainStart
  \/ MainSchedule
  \/ \E p \in Procs : CronFire(p)
  \/ \E p \in Procs : LaunchDone(p)
  \/ \E p \in Procs : LaunchFail(p)
  \/ \E p \in Procs, jobs \in PortalResults : PortalReturns(p, jobs)
  \/ \E p \in Procs : PortalThrows(p)
  \/ \E p \in Procs : CloseBrowser(p)
  \/ \E p \in Procs : CloseBrowserFail(p)
  \/ \E p \in Procs : LoadMerge(p)
  \/ \E p \in Procs : LoadFail(p)
  \/ \E p \in Procs : Save(p)
  \/ \E p \in Procs : SaveFail(p)
  \/ \E p \in Procs : Export(p)
  \/ \E p \in Procs : ExportFail(p)
  \/ \E p \in Procs : FetchReturns(p)
  \/ \E p \in Procs : FetchThrows(p)
  \/ \E p \in Procs : Returns(p)
  \/ \E p \in Procs : Rethrows(p)

\* A fresh installation with any config.tasks of Configs.
InitCycle == \E cfg \in Configs : InitCalls(Absent) /\ NotStarted(cfg)

SpecCycle == InitCycle /\ [][NextCycle]_vars

----------------------------------------------------------------------------
(* models/job used on its own: any caller may create and update Job objects *)

\* Partial<JobData>, the argument of the constructor and of update: what the
\* portals build, an object that changes the company and supplies a uniqueKey,
\* and an object that changes the link only.
JobInputs ==
  RawJobs \cup
  { [company |-> <<"D">>, uniqueKey |-> <<"K">>],
    [link |-> <<" ", "y", " ">>] }

\* job.update(newData) on the i-th object the caller holds.
UpdateJob(p, i, newData) ==
  /\ pc[p] = "scrape"
  /\ i \in 1..Len(scrapedJobs[p])
  /\ scrapedJobs' = [scrapedJobs EXCEPT ![p][i] = JobUpdate(@, newData, now)]
  /\ UNCHANGED <<now, store, delta, pc, existingJobs, updatedJobs, newJobs,
                 mergedAt, storeAtCall, deltaAtCall, streamErr, again>>
  /\ UNCHANGED <<writeErr, reported, cycleVars, serviceVars>>

\* Objects are created from any input and updated with any input, and the
\* objects are handed to one call of fetchNewJobOpenings.
NextJob ==
  \/ \E p \in SeqProcs, data \in JobInputs : ScrapeJob(p, data)
  \/ \E p \in SeqProcs, i \in 1..MaxBatch, newData \in JobInputs : UpdateJob(p, i, newData)
  \/ \E p \in SeqProcs : FetchCall(p)
  \/ \E p \in SeqProcs : LoadMerge(p)
  \/ \E p \in SeqProcs : Save(p)
  \/ \E p \in SeqProcs : Export(p)

SpecJob == Init /\ [][NextJob]_vars
----------------------------------------------------------------------------
(* services/browser navigateToUrl and services/scheduler, called by any caller *)

\* Largest maxRetries a caller passes to navigateToUrl.
MaxAttempts == 3

\* Largest number of cron tasks that are created.
MaxTasks == 3

\* The variables of the job store and of the orchestrator.
jobVars ==
  <<now, store, delta, pc, scrapedJobs, existingJobs, updatedJobs, newJobs, mergedAt,
    storeAtCall, deltaAtCall, streamErr, again, writeErr, reported, cycleVars>>

\* The variables of the scheduler and of the web server.
schedulerVars == <<scheduledTask, activeTasks, created, scheduleCron, lastCall>>
queryVars == <<queryPc, response>>

\* The variables of the calls of navigateToUrl.
navVars == <<navPc, maxRetries, retries, gotoCalls, navigated>>

\* The head of the while loop of navigateToUrl of caller p, with r retries, the
\* argument m and page.goto called `calls` times so far: page.goto is called
\* and awaited, or the loop is left and the function returns.
WhileRetries(p, r, m, calls) ==
  IF r < m
  THEN /\ navPc' = [navPc EXCEPT ![p] = "goto"]
       /\ gotoCalls' = [gotoCalls EXCEPT ![p] = calls + 1]
  ELSE /\ navPc' = [navPc EXCEPT ![p] = "returned"]
       /\ gotoCalls' = [gotoCalls EXCEPT ![p] = calls]

\* navigateToUrl(page, url, m) is called: retries = 0 and the loop is entered.
NavigateToUrl(p, m) ==
  /\ navPc[p] \in {"idle", "returned", "thrown"}
  /\ maxRetries' = [maxRetries EXCEPT ![p] = m]
  /\ retries' = [retries EXCEPT ![p] = 0]
  /\ navigated' = [navigated EXCEPT ![p] = FALSE]
  /\ WhileRetries(p, 0, m, 0)
  /\ UNCHANGED <<jobVars, schedulerVars, queryVars>>

\* page.goto resolves: navigateToUrl returns.
GotoResolves(p) ==
  /\ navPc[p] = "goto"
  /\ navigated' = [navigated EXCEPT ![p] = TRUE]
  /\ navPc' = [navPc EXCEPT ![p] = "returned"]
  /\ UNCHANGED <<maxRetries, retries, gotoCalls, jobVars, schedulerVars, queryVars>>

\* page.goto rejects: retries++, then the error is thrown when retries has
\* reached maxRetries, and the sleep before the next attempt starts otherwise.
GotoRejects(p) ==
  /\ navPc[p] = "goto"
  /\ retries' = [retries EXCEPT ![p] = @ + 1]
  /\ navPc' = [navPc EXCEPT ![p] =
                 IF retries[p] + 1 >= maxRetries[p] THEN "thrown" ELSE "sleeping"]
  /\ UNCHANGED <<maxRetries, gotoCalls, navigated, jobVars, schedulerVars, queryVars>>

\* sleep(randomDelay(3000, 5000)) resolves: the loop goes on.
SleepDone(p) ==
  /\ navPc[p] = "sleeping"
  /\ WhileRetries(p, retries[p], maxRetries[p], gotoCalls[p])
  /\ UNCHANGED <<maxRetries, retries, navigated, jobVars, schedulerVars, queryVars>>

\* A stopScheduler() that forgets the scheduled task without stopping it.
stopSchedulerForgetsTask(task, active) ==
  [scheduledTask |-> NoTask, activeTasks |-> active]

\* stopScheduler(): the scheduled task, if there is one, is stopped and
\* forgotten.  The result is the pair scheduledTask, active tasks.
stopScheduler(task, active) ==
  IF task # NoTask
  THEN [scheduledTask |-> NoTask, activeTasks |-> active \ {task}]
  ELSE [scheduledTask |-> task, activeTasks |-> active]

\* stopScheduler() is called.
StopScheduler ==
  /\ LET after == stopScheduler(scheduledTask, activeTasks)
     IN  /\ scheduledTask' = after.scheduledTask
         /\ activeTasks' = after.activeTasks
  /\ lastCall' = [name |-> "stopScheduler", returned |-> TRUE]
  /\ UNCHANGED <<created, scheduleCron, jobVars, navVars, queryVars>>

\* initScheduler(scheduleFunction) is called with config.scheduleCron valid or
\* not, cron.schedule throwing or not: false for an invalid expression; else
\* the task there is is stopped, and the new task is scheduled and kept, or the
\* catch returns false.
InitScheduler(valid, throws) ==
  /\ created < MaxTasks
  /\ scheduleCron' = valid
  /\ IF ~valid
     THEN /\ lastCall' = [name |-> "initScheduler", returned |-> FALSE]
          /\ UNCHANGED <<scheduledTask, activeTasks, created>>
     ELSE LET stopped == stopScheduler(scheduledTask, activeTasks)
          IN  IF throws
              THEN /\ scheduledTask' = stopped.scheduledTask
                   /\ activeTasks' = stopped.activeTasks
                   /\ lastCall' = [name |-> "initScheduler", returned |-> FALSE]
                   /\ UNCHANGED created
              ELSE /\ created' = created + 1
                   /\ scheduledTask' = created + 1
                   /\ activeTasks' = stopped.activeTasks \cup {created + 1}
                   /\ lastCall' = [name |-> "initScheduler", returned |-> TRUE]
  /\ UNCHANGED <<jobVars, navVars, queryVars>>

\* Callers that navigate, one call at a time each, and a caller of the
\* scheduler.
NextServices ==
  \/ \E p \in Procs, m \in 0..MaxAttempts : NavigateToUrl(p, m)
  \/ \E p \in Procs : GotoResolves(p)
  \/ \E p \in Procs : GotoRejects(p)
  \/ \E p \in Procs : SleepDone(p)
  \/ StopScheduler
  \/ \E valid, throws \in BOOLEAN : InitScheduler(valid, throws)

SpecServices == Init /\ [][NextServices]_vars

----------------------------------------------------------------------------
(* web/server: GET /api/jobs, while the scraper writes jobs.csv *)

\* The handler of GET /api/jobs is entered: 404 when fs.existsSync finds no
\* file, otherwise the file is piped to the CSV parser (of the response only
\* the status and stats.totalJobs, the number of rows read, are kept: filter,
\* sort and pagination change neither).
GetJobs ==
  /\ queryPc \in {"idle", "answered"}
  /\ IF ~store.exists
     THEN /\ response' = [status |-> 404, totalJobs |-> 0]
          /\ queryPc' = "answered"
     ELSE /\ response' = [status |-> 0, totalJobs |-> 0]
          /\ queryPc' = "reading"
  /\ UNCHANGED <<jobVars, navVars, schedulerVars>>

\* The parser emits 'end': the rows read are answered with res.json (status 200).
ReadEnd ==
  /\ queryPc = "reading"
  /\ response' = [status |-> 200, totalJobs |-> Len(store.rows)]
  /\ queryPc' = "answered"
  /\ UNCHANGED <<jobVars, navVars, schedulerVars>>

\* The parser emits 'error': status 500.
ReadError ==
  /\ queryPc = "reading"
  /\ response' = [status |-> 500, totalJobs |-> 0]
  /\ queryPc' = "answered"
  /\ UNCHANGED <<jobVars, navVars, schedulerVars>>

\* Requests to the web server, and a scraper that makes one call of
\* fetchNewJobOpenings after another on a fresh installation.
NextQuery ==
  \/ GetJobs
  \/ ReadEnd
  \/ ReadError
  \/ \E p \in SeqProcs, raw \in RawJobs : ScrapeJob(p, raw)
  \/ \E p \in SeqProcs : FetchCall(p)
  \/ \E p \in SeqProcs : LoadMerge(p)
  \/ \E p \in SeqProcs : Save(p)
  \/ \E p \in SeqProcs : Export(p)
  \/ \E p \in SeqProcs : NewCycle(p)

SpecQuery == Init /\ [][NextQuery]_vars

----------------------------------------------------------------------------
(* Vocabulary of the properties *)

\* The column of each header id.
ColumnOf ==
  [id \in {headers[i].id : i \in 1..Len(headers)} |->
     CHOOSE i \in 1..Len(headers) : headers[i].id = id]

\* The cell of column id in a line of a file.
Cell(cells, id) == cells[ColumnOf[id]]

\* The identity key of a line: company, title, job id and link concatenated and
\* trimmed.
KeyOfLine(cells) ==
  Trim(Cell(cells, "company") \o Cell(cells, "title") \o Cell(cells, "jobId")
       \o Cell(cells, "link"))

\* The records of a file by identity key; of several lines with one key the load
\* keeps the last (Map.set).
Records(file) ==
  LET key == [n \in 1..Len(file.rows) |-> KeyOfLine(file.rows[n])]
  IN  [k \in {key[n] : n \in 1..Len(file.rows)} |->
         file.rows[CHOOSE n \in 1..Len(file.rows) :
                     key[n] = k /\ \A m \in (n + 1)..Len(file.rows) : key[m] # k]]

\* The identity keys of a file.
Keys(file) == DOMAIN Records(file)

\* No two lines of the file have the same identity key.
KeysUnique(file) ==
  \A m, n \in 1..Len(file.rows) :
    m # n => KeyOfLine(file.rows[m]) # KeyOfLine(file.rows[n])

\* The content fields of a record, as opposed to its two timestamps.
ContentFields ==
  {"title", "company", "location", "jobId", "postedDate", "description",
   "requirements", "experience", "link", "source"}

\* The line holds the content of the job.
HoldsContent(cells, job) == \A f \in ContentFields : Cell(cells, f) = job[f]

\* The call of p has saved jobs.csv (and may have returned).
Saved(p) == pc[p] \in {"export", "done"}

\* The identity keys of the candidates of p.
CandidateKeys(p) == [i \in 1..Len(scrapedJobs[p]) |-> scrapedJobs[p][i].uniqueKey]

\* The candidates of p whose key was in jobs.csv when the call started.
Matched(p) ==
  LET loaded == Keys(storeAtCall[p])
  IN  {i \in 1..Len(scrapedJobs[p]) : scrapedJobs[p][i].uniqueKey \in loaded}

\* The candidates of p that are the first of their key in the batch.
FirstOfKey(p) ==
  LET key == CandidateKeys(p)
  IN  {i \in 1..Len(key) : \A j \in 1..(i - 1) : key[j] # key[i]}

\* The candidates of p that are the last of their key in the batch.
LastOfKey(p) ==
  LET key == CandidateKeys(p)
  IN  {i \in 1..Len(key) : \A j \in (i + 1)..Len(key) : key[j] # key[i]}

\* The elements of the index set S, in increasing order.
RECURSIVE Ascending(_)
Ascending(S) ==
  IF S = {} THEN <<>>
  ELSE LET m == CHOOSE x \in S : \A y \in S : x <= y
       IN  <<m>> \o Ascending(S \ {m})

----------------------------------------------------------------------------
(* C1 *)

\* C1: a call of fetchNewJobOpenings repeated at once with the same array returns
\* no new record and leaves the number of lines of jobs.csv unchanged.
C1_IdempotentRepeat ==
  \A p \in Procs :
    (pc[p] = "done" /\ again[p]) =>
      /\ newJobs[p] = <<>>
      /\ Len(store.rows) = Len(storeAtCall[p].rows)

\* A repeated call has returned, for a batch of two candidates with two keys.
C1_Witness ==
  \E p \in Procs :
    pc[p] = "done" /\ again[p] /\ Len(scrapedJobs[p]) = 2 /\ Len(store.rows) = 2

(* C2 *)

\* C2: whenever jobs.csv is written, no two of its lines have the same identity
\* key, whatever the batch and the previous file held.
C2_KeysUniqueOnceSaved ==
  [][store' # store => KeysUnique(store')]_vars

\* A call has saved the file although the file it loaded held one key on two
\* lines and its batch held one key twice.
C2_Witness ==
  \E p \in Procs :
    /\ Saved(p)
    /\ ~KeysUnique(storeAtCall[p])
    /\ Len(scrapedJobs[p]) = 2
    /\ scrapedJobs[p][1].uniqueKey = scrapedJobs[p][2].uniqueKey
    /\ KeysUnique(store)

(* C3 *)

\* C3: a key that was in jobs.csv when a call started has, once the call has
\* saved, the scrapedAt it had, whatever the scrapedAt of the candidates.
C3_ScrapedAtPreserved ==
  \A p \in Procs :
    Saved(p) =>
      LET was == Records(storeAtCall[p])
          is  == Records(store)
      IN  \A k \in DOMAIN was :
            /\ k \in DOMAIN is
            /\ Cell(is[k], "scrapedAt") = Cell(was[k], "scrapedAt")

\* A call has saved a record that a candidate with another scrapedAt matched.
C3_Witness ==
  \E p \in Procs :
    /\ Saved(p)
    /\ \E i \in Matched(p) :
         scrapedJobs[p][i].scrapedAt #
           Cell(Records(store)[scrapedJobs[p][i].uniqueKey], "scrapedAt")

(* C4 *)

\* C4: once a call has returned, no candidate that is not minimally valid is
\* among the returned records or has its content on a line of jobs.csv.
C4_InvalidDropped ==
  \A p \in Procs :
    pc[p] = "done" =>
      \A i \in 1..Len(scrapedJobs[p]) :
        ~isValid(scrapedJobs[p][i]) =>
          /\ \A n \in 1..Len(newJobs[p]) : newJobs[p][n] # i
          /\ \A n \in 1..Len(store.rows) : ~HoldsContent(store.rows[n], scrapedJobs[p][i])

(* C5 *)

\* C5: the new records of a call are the candidates that are the first of their
\* key in the batch and whose key was not in the loaded file, in input order; a
\* candidate whose key was in the loaded file is not among them.
C5_NewAreFirstAbsent ==
  \A p \in Procs :
    (pc[p] \in {"save", "export", "done"}) =>
      newJobs[p] = Ascending(FirstOfKey(p) \ Matched(p))

\* A call has returned the second of its two candidates as the only new record,
\* the first having matched a key of the loaded file.
C5_Witness ==
  \E p \in Procs :
    /\ pc[p] = "done"
    /\ Len(scrapedJobs[p]) = 2
    /\ 1 \in Matched(p)
    /\ newJobs[p] = <<2>>

(* C6 *)

\* C6 as stated: once a call has saved, every candidate whose key was in the
\* loaded file has its content on the one line jobs.csv holds for that key.
C6_EveryMatchPersisted ==
  \A p \in Procs :
    Saved(p) =>
      LET is == Records(store)
      IN  /\ KeysUnique(store)
          /\ \A i \in Matched(p) :
               /\ scrapedJobs[p][i].uniqueKey \in DOMAIN is
               /\ HoldsContent(is[scrapedJobs[p][i].uniqueKey], scrapedJobs[p][i])

\* C6 amended: once a call has saved, jobs.csv holds one line for the key of
\* every candidate whose key was in the loaded file, and the line has the
\* content of the last candidate of the batch with that key.
C6_LastMatchPersisted ==
  \A p \in Procs :
    Saved(p) =>
      LET is == Records(store)
      IN  /\ KeysUnique(store)
          /\ \A i \in Matched(p) :
               /\ scrapedJobs[p][i].uniqueKey \in DOMAIN is
               /\ i \in LastOfKey(p) =>
                    HoldsContent(is[scrapedJobs[p][i].uniqueKey], scrapedJobs[p][i])

\* A call has saved the content of a candidate over a record that held another
\* description.
C6_Witness ==
  \E p \in Procs :
    /\ Saved(p)
    /\ \E i \in Matched(p) \cap LastOfKey(p) :
         /\ Cell(Records(storeAtCall[p])[scrapedJobs[p][i].uniqueKey], "description")
              # scrapedJobs[p][i].description
         /\ Cell(Records(store)[scrapedJobs[p][i].uniqueKey], "description")
              = scrapedJobs[p][i].description

(* C7 *)

C8_LastUpdatedSetAndMonotone ==
  \A p \in Procs :
    Saved(p) =>
      LET was == Records(storeAtCall[p])
          is  == Records(store)
      IN  /\ \A i \in Matched(p) :
               Cell(is[scrapedJobs[p][i].uniqueKey], "lastUpdated")
                 = toISOString(mergedAt[p])
          /\ \A k \in DOMAIN was :
               /\ k \in DOMAIN is
               /\ getTime(Cell(is[k], "lastUpdated")) >= getTime(Cell(was[k], "lastUpdated"))

\* A call has saved a record matched by a candidate that brought no new field
\* value, and the record's lastUpdated has moved to the time of the merge.
C8_Witness ==
  \E p \in Procs :
    /\ Saved(p)
    /\ \E i \in Matched(p) \cap LastOfKey(p) \cap FirstOfKey(p) :
         LET k == scrapedJobs[p][i].uniqueKey
         IN  /\ HoldsContent(Records(storeAtCall[p])[k], scrapedJobs[p][i])
             /\ Cell(Records(storeAtCall[p])[k], "lastUpdated") # toISOString(mergedAt[p])
             /\ Cell(Records(store)[k], "lastUpdated") = toISOString(mergedAt[p])

(* C9 *)

\* C9 as stated: once a call has saved, the record of every key that a candidate
\* matched has a lastUpdated strictly later than it had.
C9_StrictlyLater ==
  \A p \in Procs :
    Saved(p) =>
      LET was == Records(storeAtCall[p])
          is  == Records(store)
      IN  \A i \in Matched(p) :
            getTime(Cell(is[scrapedJobs[p][i].uniqueKey], "lastUpdated"))
              > getTime(Cell(was[scrapedJobs[p][i].uniqueKey], "lastUpdated"))

\* C9 amended: the record's lastUpdated is not earlier than it had, and it is
\* strictly later exactly when the clock reading of the merge is later than the
\* lastUpdated the record had.
C9_LaterWhenClockAdvanced ==
  \A p \in Procs :
    Saved(p) =>
      LET was == Records(storeAtCall[p])
          is  == Records(store)
      IN  \A i \in Matched(p) :
            LET before == getTime(Cell(was[scrapedJobs[p][i].uniqueKey], "lastUpdated"))
                after  == getTime(Cell(is[scrapedJobs[p][i].uniqueKey], "lastUpdated"))
            IN  /\ after >= before
                /\ (after > before) <=> (mergedAt[p] > before)

\* A call has saved a matched record whose lastUpdated is strictly later than it
\* was.
C9_Witness ==
  \E p \in Procs :
    /\ Saved(p)
    /\ \E i \in Matched(p) :
         getTime(Cell(Records(store)[scrapedJobs[p][i].uniqueKey], "lastUpdated"))
           > getTime(Cell(Records(storeAtCall[p])[scrapedJobs[p][i].uniqueKey],
                          "lastUpdated"))

(* C10 *)

\* C10: once a call has returned, newly_added_jobs.csv exists and holds one line
\* per returned record, in order: the line jobs.csv holds for the record's key,
\* a key that was not in the loaded file.  With no new record it holds no line.
C10_DeltaIsThisCallsNew ==
  \A p \in Procs :
    pc[p] = "done" =>
      LET was == Keys(storeAtCall[p])
          is  == Records(store)
      IN  /\ delta.exists
          /\ Len(delta.rows) = Len(newJobs[p])
          /\ \A n \in 1..Len(newJobs[p]) :
               LET k == scrapedJobs[p][newJobs[p][n]].uniqueKey
               IN  /\ KeyOfLine(delta.rows[n]) = k
                   /\ k \notin was
                   /\ delta.rows[n] = is[k]

\* A call without new records has returned, and the file that held the new
\* records of the cycle before holds no line.
C10_Witness ==
  \E p \in Procs :
    /\ pc[p] = "done"
    /\ newJobs[p] = <<>>
    /\ scrapedJobs[p] # <<>>
    /\ deltaAtCall[p].rows # <<>>
    /\ delta = FileOf(<<>>)

(* C11 *)

\* The three columns of the schema for which a Job has no property.
ColumnsWithoutProperty == {"workType", "salary", "employmentType"}

\* C11: once a call has saved, loading jobs.csv at any later time gives the saved
\* records, in order and field for field (the identity key recomputed); every
\* line has the fifteen columns, those a Job has no property for being empty.
\* The same holds of the returned records and newly_added_jobs.csv.
C11_LoadOfSaveIsSame ==
  \A p \in Procs :
    /\ Saved(p) =>
         /\ \A t \in 0..MaxTime :
              loadJobsFromDatabase(store, FALSE, t) = [ok |-> TRUE, jobs |-> updatedJobs[p]]
         /\ \A n \in 1..Len(store.rows) :
              /\ Len(store.rows[n]) = Len(headers)
              /\ \A c \in ColumnsWithoutProperty : Cell(store.rows[n], c) = <<>>
    /\ pc[p] = "done" =>
         \A t \in 0..MaxTime :
           loadJobsFromDatabase(delta, FALSE, t) = [ok |-> TRUE, jobs |-> NewJobObjects(p)]

\* A call has saved two records, one of them with a description and updated
\* after it was first seen.
C11_Witness ==
  \E p \in Procs :
    /\ Saved(p)
    /\ Len(updatedJobs[p]) = 2
    /\ \E n \in 1..2 :
         /\ updatedJobs[p][n].description # <<>>
         /\ updatedJobs[p][n].lastUpdated # updatedJobs[p][n].scrapedAt

(* C12 *)

\* The lines of the file are in descending order of scrapedAt.
SortedDescending(file) ==
  \A n \in 1..(Len(file.rows) - 1) :
    getTime(Cell(file.rows[n], "scrapedAt")) >= getTime(Cell(file.rows[n + 1], "scrapedAt"))

\* C12: once a call has saved, every line of jobs.csv has a scrapedAt not
\* earlier than that of the line after it.
C12_StoreSortedDescending ==
  \A p \in Procs : Saved(p) => SortedDescending(store)

\* A call has saved a record it added in front of an older record it had loaded.
C12_Witness ==
  \E p \in Procs :
    /\ Saved(p)
    /\ Len(storeAtCall[p].rows) = 1
    /\ Len(newJobs[p]) = 1
    /\ Len(store.rows) = 2
    /\ KeyOfLine(store.rows[1]) = scrapedJobs[p][newJobs[p][1]].uniqueKey
    /\ getTime(Cell(store.rows[1], "scrapedAt")) > getTime(Cell(store.rows[2], "scrapedAt"))

(* C19 *)

\* The uniqueKey of the job is computed from the values its fields have.
KeyIsComputed(job) ==
  job.uniqueKey = Trim(job.company \o job.title \o job.jobId \o job.link)

\* C19: every Job object, created from any data or updated with any data, has
\* the uniqueKey computed from its current company, title, jobId and link (two
\* objects with the same four values have the same key; a supplied uniqueKey is
\* not taken); and when the merge of a call ends, every object jobsMap holds has
\* the key it is held under.
C19_KeyComputedFromFields ==
  /\ [](\A p \in Procs :
         /\ \A i \in 1..Len(scrapedJobs[p]) : KeyIsComputed(scrapedJobs[p][i])
         /\ \A n \in 1..Len(existingJobs[p]) : KeyIsComputed(existingJobs[p][n])
         /\ \A n \in 1..Len(updatedJobs[p]) : KeyIsComputed(updatedJobs[p][n])
         /\ \A i, j \in 1..Len(scrapedJobs[p]) :
              (\A f \in {"company", "title", "jobId", "link"} :
                 scrapedJobs[p][i][f] = scrapedJobs[p][j][f])
                => scrapedJobs[p][i].uniqueKey = scrapedJobs[p][j].uniqueKey)
  /\ [][\A p \in Procs :
          (pc[p] = "load" /\ pc'[p] = "save") =>
            LET r == Reconcile(loadJobsFromDatabase(store, FALSE, now).jobs,
                               scrapedJobs[p], now)
            IN  \A n \in 1..Len(r.map) : Deref(r, r.map[n].ref).uniqueKey = r.map[n].key]_vars

\* A call has saved an object whose company was changed by an update that also
\* supplied a uniqueKey, the object having been updated in jobsMap by a second
\* candidate with its key.
C19_Witness ==
  \E p \in Procs :
    /\ Saved(p)
    /\ Len(scrapedJobs[p]) = 2
    /\ Len(updatedJobs[p]) = 1
    /\ \E n \in 1..Len(updatedJobs[p]) :
         /\ updatedJobs[p][n].company = <<"D">>
         /\ updatedJobs[p][n].title = <<"B", "C">>
         /\ updatedJobs[p][n].uniqueKey = <<"D", "B", "C", "1">>

(* C18 *)

\* C18: when the write of jobs.csv or of newly_added_jobs.csv fails in a call,
\* the call rejects and returns no record; when it is the write of jobs.csv,
\* newly_added_jobs.csv is as it was when the call started (and when it is the
\* write of newly_added_jobs.csv, jobs.csv has already been rewritten).
C18_WriteFailureRejects ==
  \A p \in Procs :
    writeErr[p] # "none" =>
      /\ pc[p] = "failed"
      /\ writeErr[p] = "store" => delta = deltaAtCall[p]
      /\ writeErr[p] = "delta" => store = saveJobsToDatabase(storeAtCall[p], updatedJobs[p])

\* The write of jobs.csv has failed part way in a call that had a new record to
\* return, and newly_added_jobs.csv still holds the lines of the call before.
C18_Witness ==
  \E p \in Procs :
    /\ writeErr[p] = "store"
    /\ pc[p] = "failed"
    /\ newJobs[p] # <<>>
    /\ store # storeAtCall[p]
    /\ store # saveJobsToDatabase(storeAtCall[p], updatedJobs[p])
    /\ delta.rows # <<>>

(* C16 *)

\* The identity keys of the batch of p, and of the records p returned as new.
BatchKeys(p) == {scrapedJobs[p][i].uniqueKey : i \in 1..Len(scrapedJobs[p])}
ReturnedKeys(p) == {scrapedJobs[p][newJobs[p][n]].uniqueKey : n \in 1..Len(newJobs[p])}

\* C16: when two calls on the same jobs.csv have both returned and each loaded
\* the file before the other had saved a record to it, each has returned every
\* key of its batch as new and jobs.csv holds the records of one of the calls
\* only; so, when both had candidates, either a key has been returned as new by
\* both calls, or jobs.csv lacks a record that one of the calls added and
\* returned as new.
C16_ConcurrentCallsLoseOrRepeat ==
  \A p, q \in Procs :
    (/\ p # q
     /\ pc[p] = "done" /\ pc[q] = "done"
     /\ existingJobs[p] = <<>> /\ existingJobs[q] = <<>>) =>
      /\ ReturnedKeys(p) = BatchKeys(p)
      /\ ReturnedKeys(q) = BatchKeys(q)
      /\ Keys(store) \in {BatchKeys(p), BatchKeys(q)}
      /\ (BatchKeys(p) # {} /\ BatchKeys(q) # {}) =>
           \/ ReturnedKeys(p) \cap ReturnedKeys(q) # {}
           \/ \E k \in ReturnedKeys(p) \cup ReturnedKeys(q) : k \notin Keys(store)

\* Two calls with batches of different postings have both returned, and jobs.csv
\* lacks the record that one of them returned as new.
C16_Witness ==
  \E p, q \in Procs :
    /\ p # q
    /\ pc[p] = "done" /\ pc[q] = "done"
    /\ existingJobs[p] = <<>> /\ existingJobs[q] = <<>>
    /\ ReturnedKeys(p) # {} /\ ReturnedKeys(q) # {}
    /\ ReturnedKeys(p) \cap ReturnedKeys(q) = {}
    /\ \E k \in ReturnedKeys(p) : k \notin Keys(store)

\* An error thrown by the task loop of run p (a task type without a case) has
\* been caught by the outer catch, which awaits its error report.
LoopThrew(p) == cycle[p] = "reporting" /\ taskIdx[p] \in 1..Len(tasks)

\* C13: a task that cannot be handled never keeps the candidates collected from
\* the other sources from reconcile: a run whose loop stopped at such a task,
\* with candidates collected, has called fetchNewJobOpenings once.
C13_CollectedReachReconcile ==
  \A p \in Procs :
    (LoopThrew(p) /\ scrapedJobs[p] # <<>>) => fetchCalls[p] = 1

\* C14: every run calls fetchNewJobOpenings exactly once, after the last task:
\* never more than once, never while a task is still to be scraped, and a run
\* that has left its loop (by its end or by an error) has made the call.
C14_ReconcileOncePerCycle ==
  \A p \in Procs :
    /\ fetchCalls[p] <= 1
    /\ cycle[p] = "fetching" => (taskIdx[p] > Len(tasks) /\ fetchCalls[p] = 1)
    /\ cycle[p] = "announcing" => fetchCalls[p] = 1
    /\ LoopThrew(p) => fetchCalls[p] = 1

\* C15: the cron task never starts a run of scrapeJobs while an earlier run is
\* in progress: at most one run is in progress at any time.
C15_NoOverlappingRuns ==
  \A p, q \in Procs : (Running(p) /\ Running(q)) => p = q

\* C17: when fetchNewJobOpenings fails, the run reports the error and sends no
\* summary, and the process is still there for the next scheduled run when
\* scrapeJobs has thrown, in the initial run as in a scheduled one.
C17_FailedCycleLeavesNextCycle ==
  /\ [](\A p \in Procs :
          (cycle[p] = "reporting" /\ fetchCalls[p] = 1)
            => ("error" \in sent[p] /\ "summary" \notin sent[p]))
  /\ [][\A p \in Procs :
          (cycle[p] = "reporting" /\ fetchCalls[p] = 1 /\ cycle'[p] = "thrown")
            => mainPc' # "exited"]_vars

\* C20: the browser of a run is closed on every way out of the run, the error
\* that escapes the task loop included: a run that has left its loop, by an
\* error or with its call of fetchNewJobOpenings made, has no open browser.
C20_BrowserReleasedOnEveryExit ==
  \A p \in Procs :
    ((cycle[p] \in {"announcing", "reporting"} /\ fetchCalls[p] = 1) \/ LoopThrew(p))
      => browser[p] \notin browsers

(* C24 *)

\* C24: once a call has saved, the identity keys of jobs.csv are the keys it held
\* when the call started together with the keys of the candidates: no key is
\* removed, a posting that is no longer scraped stays.
C24_KeysOnlyGrow ==
  \A p \in Procs :
    Saved(p) =>
      /\ Keys(storeAtCall[p]) \subseteq Keys(store)
      /\ Keys(store) = Keys(storeAtCall[p]) \cup BatchKeys(p)

\* A call has saved a file that held a key none of its candidates has, and a
\* candidate brought a key the file did not hold.
C24_Witness ==
  \E p \in Procs :
    /\ Saved(p)
    /\ Keys(storeAtCall[p]) \ BatchKeys(p) # {}
    /\ BatchKeys(p) \ Keys(storeAtCall[p]) # {}

(* C25 *)

\* C25: once a call has saved, a record of the jobs.csv it loaded whose key no
\* candidate has is on a line of jobs.csv as it was, cell for cell, scrapedAt
\* and lastUpdated included.
C25_UnmatchedUnchanged ==
  \A p \in Procs :
    Saved(p) =>
      LET was == Records(storeAtCall[p])
          is  == Records(store)
      IN  \A k \in (DOMAIN was) \ BatchKeys(p) :
            k \in DOMAIN is /\ is[k] = was[k]

\* A call with candidates has saved a file that held a record none of them
\* matched, a record that had been updated after it was first seen.
C25_Witness ==
  \E p \in Procs :
    /\ Saved(p)
    /\ scrapedJobs[p] # <<>>
    /\ LET was == Records(storeAtCall[p])
       IN  \E k \in (DOMAIN was) \ BatchKeys(p) :
             Cell(was[k], "lastUpdated") # Cell(was[k], "scrapedAt")

(* C26 *)

\* C26: over calls that do not overlap, starting from any jobs.csv that is not
\* removed, a call that returns hands back no identity key that an earlier call
\* has returned.
C26_ReturnedAtMostOnce ==
  [][\A p \in Procs :
       (pc[p] = "export" /\ pc'[p] = "done") => ReturnedKeys(p) \cap reported = {}]_vars

\* A call has returned a new key, and its batch also held a key that an earlier
\* call had returned.
C26_Witness ==
  \E p \in Procs :
    /\ pc[p] = "done"
    /\ ReturnedKeys(p) # {}
    /\ BatchKeys(p) \cap (reported \ ReturnedKeys(p)) # {}

(* C27 *)

\* C27: every identity key of jobs.csv was returned as new by some call: a call
\* that has rejected because newly_added_jobs.csv could not be written leaves no
\* key in jobs.csv that no call has returned.
C27_StoredWereReported ==
  \A p \in Procs :
    (pc[p] = "failed" /\ writeErr[p] = "delta") => Keys(store) \subseteq reported

(* C28 *)

\* The lines of a file that have identity key k.
LinesOfKey(file, k) == {n \in 1..Len(file.rows) : KeyOfLine(file.rows[n]) = k}

\* C28: a key that jobs.csv did not hold and that several candidates of the
\* batch have is returned once, as the first of these candidates; that object
\* has the content of the last of them, and the merge leaves it the scrapedAt
\* it had; once the call has returned, jobs.csv and newly_added_jobs.csv hold
\* one line for the key, the same line, with that content and that scrapedAt.
C28_DuplicatesInBatchMerged ==
  /\ [](\A p \in Procs :
          pc[p] = "done" =>
            \A i \in FirstOfKey(p) :
              LET k    == scrapedJobs[p][i].uniqueKey
                  same == {j \in 1..Len(scrapedJobs[p]) : scrapedJobs[p][j].uniqueKey = k}
              IN  (k \notin Keys(storeAtCall[p]) /\ same # {i}) =>
                    /\ {n \in 1..Len(newJobs[p]) : newJobs[p][n] \in same}
                         = {n \in 1..Len(newJobs[p]) : newJobs[p][n] = i}
                    /\ Cardinality({n \in 1..Len(newJobs[p]) : newJobs[p][n] = i}) = 1
                    /\ \A j \in same \cap LastOfKey(p) :
                         \A f \in ContentFields :
                           scrapedJobs[p][i][f] = scrapedJobs[p][j][f]
                    /\ \E m \in 1..Len(store.rows), n \in 1..Len(delta.rows) :
                         /\ LinesOfKey(store, k) = {m}
                         /\ LinesOfKey(delta, k) = {n}
                         /\ store.rows[m] = delta.rows[n]
                         /\ HoldsContent(store.rows[m], scrapedJobs[p][i])
                         /\ Cell(store.rows[m], "scrapedAt") = scrapedJobs[p][i].scrapedAt)
  /\ [][\A p \in Procs :
          (pc[p] = "load" /\ pc'[p] = "save") =>
            \A i \in FirstOfKey(p) :
              scrapedJobs[p][i].uniqueKey \notin Keys(store) =>
                scrapedJobs'[p][i].scrapedAt = scrapedJobs[p][i].scrapedAt]_vars

\* A call has returned for a batch of two candidates with one key, which
\* jobs.csv did not hold, the second with other content and a later scrapedAt.
C28_Witness ==
  \E p \in Procs :
    /\ pc[p] = "done"
    /\ Len(scrapedJobs[p]) = 2
    /\ scrapedJobs[p][1].uniqueKey = scrapedJobs[p][2].uniqueKey
    /\ scrapedJobs[p][1].uniqueKey \notin Keys(storeAtCall[p])
    /\ scrapedJobs[p][2].company # <<"A">>
    /\ scrapedJobs[p][2].description # <<>>
    /\ getTime(scrapedJobs[p][1].scrapedAt) < getTime(scrapedJobs[p][2].scrapedAt)

(* C29 *)

\* The identity fields of a job, and their concatenation, trimmed.
IdentityTuple(job) == <<job.company, job.title, job.jobId, job.link>>
Concatenation(job) == Trim(job.company \o job.title \o job.jobId \o job.link)

\* The identity fields of a line of a file.
IdentityTupleOfLine(cells) ==
  <<Cell(cells, "company"), Cell(cells, "title"), Cell(cells, "jobId"), Cell(cells, "link")>>

\* C29: identity is the trimmed concatenation alone.  When the candidates are
\* merged, a candidate whose identity fields differ from those of an earlier
\* candidate of the batch, or of a line of jobs.csv, but whose concatenation is
\* the same, is not pushed to newJobs; once the call has saved, jobs.csv holds
\* one line for that concatenation.
C29_SameConcatenationSamePosting ==
  /\ [][\A p \in Procs :
          (pc[p] = "load" /\ pc'[p] = "save") =>
            \A j \in 1..Len(scrapedJobs[p]) :
              ( \/ \E i \in 1..(j - 1) :
                     /\ IdentityTuple(scrapedJobs[p][i]) # IdentityTuple(scrapedJobs[p][j])
                     /\ Concatenation(scrapedJobs[p][i]) = Concatenation(scrapedJobs[p][j])
                \/ \E m \in 1..Len(store.rows) :
                     /\ IdentityTupleOfLine(store.rows[m]) # IdentityTuple(scrapedJobs[p][j])
                     /\ KeyOfLine(store.rows[m]) = Concatenation(scrapedJobs[p][j]) )
              => \A n \in 1..Len(newJobs'[p]) : newJobs'[p][n] # j]_vars
  /\ [](\A p \in Procs :
          Saved(p) =>
            \A j \in 1..Len(scrapedJobs[p]) :
              Cardinality(LinesOfKey(store, Concatenation(scrapedJobs[p][j]))) = 1)

\* A call has returned that was handed company "AB", title "C" when an earlier
\* candidate or jobs.csv held company "A", title "BC": the candidate is not
\* returned, and the one line of the key has company "AB".
C29_Witness ==
  \E p \in Procs :
    /\ pc[p] = "done"
    /\ \E j \in 1..Len(scrapedJobs[p]) :
         /\ scrapedJobs[p][j].company = <<"A", "B">>
         /\ \A n \in 1..Len(newJobs[p]) : newJobs[p][n] # j
         /\ \E m \in 1..Len(store.rows) :
              /\ LinesOfKey(store, scrapedJobs[p][j].uniqueKey) = {m}
              /\ Cell(store.rows[m], "company") = <<"A", "B">>

(* C30 *)

\* C30: the browser a run got from setupBrowser is not closed while the run is
\* still scraping with it: a run that awaits a portal has an open browser.
C30_BrowserOpenWhileScraping ==
  \A p \in Procs : cycle[p] = "scraping" => browser[p] \in browsers

(* C22 *)

\* C22: navigateToUrl returns only after a page.goto has resolved, calls
\* page.goto at most maxRetries times, and has thrown only when maxRetries
\* attempts have failed; for every maxRetries >= 0.
C22_ReturnsOnlyNavigated ==
  \A p \in Procs :
    /\ navPc[p] = "returned" => navigated[p]
    /\ gotoCalls[p] <= maxRetries[p]
    /\ navPc[p] = "thrown" =>
         (~navigated[p] /\ retries[p] = maxRetries[p] /\ gotoCalls[p] = maxRetries[p])

(* C23 *)

\* C23: after any calls of initScheduler and stopScheduler at most one cron task
\* is active, the one the module holds; a call of initScheduler that schedules
\* a task leaves that task alone active; a call with an invalid expression
\* returns false and leaves the task and the module variable as they were; and
\* stopScheduler called twice does what one call does.
C23_AtMostOneCronTask ==
  /\ [](/\ Cardinality(activeTasks) <= 1
        /\ activeTasks = (IF scheduledTask = NoTask THEN {} ELSE {scheduledTask})
        /\ LET once  == stopScheduler(scheduledTask, activeTasks)
               twice == stopScheduler(once.scheduledTask, once.activeTasks)
           IN  twice = once /\ once.activeTasks = {})
  /\ [][/\ created' # created =>
             (activeTasks' = {created'} /\ scheduledTask' = created')
        /\ (lastCall'.name = "initScheduler" /\ ~scheduleCron') =>
             /\ ~lastCall'.returned
             /\ scheduledTask' = scheduledTask
             /\ activeTasks' = activeTasks
        /\ lastCall'.name = "stopScheduler" =>
             (scheduledTask' = NoTask /\ activeTasks' = {})]_vars

\* A second task has been scheduled, and a call of initScheduler with an invalid
\* expression has then returned false, the second task being the one active.
C23_Witness ==
  /\ created = 2
  /\ activeTasks = {2}
  /\ scheduledTask = 2
  /\ lastCall = [name |-> "initScheduler", returned |-> FALSE]
  /\ ~scheduleCron

(* C21 *)

\* C21: when jobs.csv does not exist, GET /api/jobs is answered with an empty
\* result set and not with an error: an answered request finds either the file
\* or the status 200 with no job.
C21_AbsentStoreAnsweredEmpty ==
  (queryPc = "answered" /\ ~store.exists) =>
    (response.status = 200 /\ response.totalJobs = 0)
====
